---- MODULE Spec2Model ----
(***************************************************************************)
(* Model of tree_layout_algorithm.py (TreeLayoutAlgorithm) and, in the     *)
(* last part, of tree_reaction_simulation.py (Branch and instant growth).   *)
(*                                                                         *)
(* Node ids are opaque keys; the model names each node by its insertion    *)
(* position in the nodes mapping, so nodes = <<1, ..., n>> and "first in   *)
(* input order" is the smallest id.  UnknownId is an id that is never a    *)
(* key of nodes.                                                           *)
(*                                                                         *)
(* Real numbers are fixed point: a length is an integer number of          *)
(* 1/LengthScale units, an angle an integer number of 1/AngleScale degree, *)
(* a random factor an integer number of hundredths.                        *)
(*                                                                         *)
(* A position is kept symbolically as the origin and the list of polar     *)
(* displacements <<length, angle>> added to it, i.e.                       *)
(*   x = origin.x + SUM length * cos(angle),                               *)
(*   y = origin.y + SUM length * sin(angle).                               *)
(***************************************************************************)
EXTENDS Integers, Sequences, FiniteSets, TLC

\* ------------------------------------------------------------------ bounds
MaxNodes == 3
MaxLinks == 3
MaxNegative == 6
MaxCount == 64
MaxFrames == 12

\* --------------------------------------------------------------- constants
LengthScale == 10000
AngleScale == 12
UnknownId == 0
DefaultBranchAngle == 35
DefaultBranchFactor == 85
DefaultMinBranchLength == 30
DefaultMaxDepth == 10000
DefaultRootX == 600
DefaultRootY == 650
LowDraw == 80
UpAngle == -90
GROWTH_SPEED == 1
BRANCH_ANGLE == 35
BRANCH_FACTOR == 85
MIN_BRANCH_LENGTH == 18
MAX_DEPTH == 14
SeedLength == 100
WIDTH == 800
HEIGHT == 600
GROW_EVERY_N_FRAMES == 5
MAX_BRANCH_ENDS == 5000

VARIABLES
    nodes,              \* sequence of node ids in insertion order
    links,              \* sequence of [from, to]
    branch_angle,       \* self.branch_angle, in angle units
    branch_factor,      \* self.branch_factor, in hundredths
    min_branch_length,  \* self.min_branch_length, in length units
    max_depth,          \* self.max_depth
    root_x, root_y,     \* layout_tree arguments
    pc,                 \* "call", "place", "done", "params", "returned"
    root_node,          \* layout_tree local root_node (UnknownId before it is set)
    tree_structure,     \* layout_tree local tree_structure
    node_positions,     \* layout_tree local node_positions
    positioned_nodes,   \* layout_tree local positioned_nodes
    stack,              \* activation records of place_nodes_recursively
    visit,              \* history: arguments of the call made for each node
    placement,          \* history: how each child position was computed
    node_count,         \* calculate_dynamic_parameters argument
    result,             \* calculate_dynamic_parameters return value
    growth,             \* the growth parameters of tree_reaction_simulation.py
    branches,           \* main's list of root Branch objects
    last_op,            \* history: the call made last on the forest
    was_fresh,          \* history: the forest was freshly created before that call
    growing,            \* main local growing
    paused,             \* main local paused
    instant_grow_mode,  \* main local instant_grow_mode
    fast_grow_mode,     \* main local fast_grow_mode
    frame_count         \* main local frame_count

layoutVars == <<nodes, links, branch_angle, branch_factor, min_branch_length,
                max_depth, root_x, root_y, root_node, tree_structure,
                node_positions, positioned_nodes, stack, visit, placement>>
paramVars == <<node_count, result>>
growthVars == <<growth, branches, last_op, was_fresh>>
mainVars == <<growing, paused, instant_grow_mode, fast_grow_mode, frame_count>>
vars == <<layoutVars, pc, paramVars, growthVars, mainVars>>

\* ------------------------------------------------------------ helpers
Range(s) == {s[i] : i \in 1..Len(s)}

SeqsUpTo(S, n) == UNION {[1..k -> S] : k \in 0..n}

Min(S) == CHOOSE x \in S : \A y \in S : x <= y

Max(S) == CHOOSE x \in S : \A y \in S : y <= x

EmptyMap == [x \in {} |-> 0]

\* ------------------------------------------------- calculate_dynamic_parameters
\* self.scaling_configs, in dictionary (insertion) order.  unbounded stands
\* for the upper limit float('inf').
scaling_configs ==
    << [min_count |-> 0,  max_count |-> 10, unbounded |-> FALSE,
        base_length |-> 100, base_spacing |-> 60],
       [min_count |-> 11, max_count |-> 30, unbounded |-> FALSE,
        base_length |-> 120, base_spacing |-> 80],
       [min_count |-> 31, max_count |-> 60, unbounded |-> FALSE,
        base_length |-> 150, base_spacing |-> 100],
       [min_count |-> 61, max_count |-> 61, unbounded |-> TRUE,
        base_length |-> 180, base_spacing |-> 120] >>

\* InBand with an exclusive upper limit
InBand_Exclusive(band, count) ==
    band.min_count <= count /\ (band.unbounded \/ count < band.max_count)

\* min_count <= node_count <= max_count
InBand(band, count) ==
    band.min_count <= count /\ (band.unbounded \/ count <= band.max_count)

CalculateDynamicParameters(count) ==
    LET hits == {i \in 1..Len(scaling_configs) : InBand(scaling_configs[i], count)}
        top  == scaling_configs[Len(scaling_configs)]
    IN  IF hits # {}
        THEN <<scaling_configs[Min(hits)].base_length,
               scaling_configs[Min(hits)].base_spacing>>
        ELSE <<top.base_length, top.base_spacing>>

\* ------------------------------------------------------- build_tree_structure
BuildTreeStructure(root, ns, ls) ==
    [p \in Range(ns) |->
        LET kept == SelectSeq(ls, LAMBDA l : l.from = p /\ l.to \in Range(ns))
        IN  [i \in 1..Len(kept) |-> kept[i].to]]

\* ------------------------------------------------------------ find_root_nodes
\* list(all_node_ids - linked_to) lists a set: its order is the set's
\* iteration order, which the language does not fix, so every order is a
\* possible value.  The fallback is the first inserted node.
Orderings(S) == {s \in [1..Cardinality(S) -> S] : Range(s) = S}

FindRootNodes(ns, ls) ==
    LET all_node_ids == Range(ns)
        linked_to    == {ls[i].to : i \in 1..Len(ls)}
        roots        == all_node_ids \ linked_to
    IN  IF roots = {} THEN {<<ns[1]>>} ELSE Orderings(roots)

\* ---------------------------------------------------- place_nodes_recursively
\* ShouldStop with the depth counted from 0
ShouldStop_DepthFromZero(depth, length, maxd, minl) ==
    depth + 1 >= maxd \/ length < minl

\* ShouldStop with > for >=
ShouldStop_DepthInclusive(depth, length, maxd, minl) ==
    depth > maxd \/ length < minl

\* ShouldStop without the length test
ShouldStop_DepthOnly(depth, length, maxd, minl) ==
    depth >= maxd

\* depth >= self.max_depth or length < self.min_branch_length
ShouldStop(depth, length, maxd, minl) ==
    depth >= maxd \/ length < minl

\* AlreadyPositioned without the membership test
AlreadyPositioned_Never(child_id, positioned) ==
    FALSE

\* AlreadyPositioned when the root was never added to positioned_nodes
AlreadyPositioned_ChildrenOnly(child_id, positioned) ==
    child_id \in positioned /\ child_id # root_node

\* AlreadyPositioned that recognises the root only
AlreadyPositioned_RootOnly(child_id, positioned) ==
    child_id \in positioned /\ child_id = root_node

\* child_id in positioned_nodes
AlreadyPositioned(child_id, positioned) ==
    child_id \in positioned

\* Delta dividing by the number of children, not the number of gaps
Delta_PerChild(i, num_branches, ba) ==
    IF num_branches = 1
    THEN 0
    ELSE LET spread == ba * 2
         IN  (i * spread) \div num_branches - spread \div 2

\* the angular offset of the i-th (0-based) of num_branches children
Delta(i, num_branches, ba) ==
    IF num_branches = 1
    THEN 0
    ELSE LET spread == ba * 2
         IN  (i * spread) \div (num_branches - 1) - spread \div 2

\* start + length * (cos(angle), sin(angle))
Polar(start, length, angle) ==
    [start EXCEPT !.steps = Append(@, <<length, angle>>)]

\* the values random.uniform(0.8, self.branch_factor) is drawn from:
\* a + (b - a) * random() lies between the two limits in either order
Draws(bf) ==
    {LowDraw, bf}

\* length * random.uniform(0.8, self.branch_factor), f the draw
NewLength(length, f) ==
    (length * f) \div 100

\* ------------------------------------------------------------------ layout_tree
Origin(x, y) == [x |-> x, y |-> y, steps |-> <<>>]

\* PlaceRoot that places every root candidate at the origin
PlaceRoot_EveryRoot(root_nodes, x, y) ==
    [n \in Range(root_nodes) |-> Origin(x, y)]

\* node_positions after the root is placed
PlaceRoot(root_nodes, x, y) ==
    [n \in {root_nodes[1]} |-> Origin(x, y)]

Frame(node_id, start, angle, length, depth) ==
    [node_id |-> node_id, start |-> start, angle |-> angle,
     length |-> length, depth |-> depth, i |-> 0]

\* ------------------------------------------------------------------- inputs
NodeSeq(n) == [i \in 1..n |-> i]

LinkSet(n) == [from : 0..n, to : 0..n]

\* build_tree_structure and find_root_nodes read only the relative order of
\* the links that have the same 'from', so link lists are enumerated up to
\* the order of links of different parents: grouped by parent.
GroupedByFrom(ls) ==
    \A i \in 1..Len(ls) : \A j \in 1..Len(ls) : i < j => ls[i].from <= ls[j].from

LinkSeqs(n) == {ls \in SeqsUpTo(LinkSet(n), MaxLinks) : GroupedByFrom(ls)}

\* constructor and call arguments: the defaults; a depth limit within reach
\* with a branch_factor of 1; a depth limit of one; a minimum length the first
\* decay falls below with a branch_factor under 0.8
Configs ==
    { [max_depth |-> DefaultMaxDepth, min_branch_length |-> DefaultMinBranchLength,
       branch_factor |-> DefaultBranchFactor,
       root_x |-> DefaultRootX, root_y |-> DefaultRootY],
      [max_depth |-> 2, min_branch_length |-> DefaultMinBranchLength,
       branch_factor |-> 100,
       root_x |-> DefaultRootX, root_y |-> DefaultRootY],
      [max_depth |-> 1, min_branch_length |-> DefaultMinBranchLength,
       branch_factor |-> DefaultBranchFactor,
       root_x |-> 0, root_y |-> 0],
      [max_depth |-> DefaultMaxDepth, min_branch_length |-> 3 * DefaultMinBranchLength,
       branch_factor |-> 75,
       root_x |-> 0, root_y |-> 0] }

\* no simulation is running
GrowthIdle ==
    /\ growth = EmptyMap
    /\ branches = <<>>
    /\ last_op = "none"
    /\ was_fresh = FALSE

\* the locals of main before its loop
MainIdle ==
    /\ growing = FALSE
    /\ paused = FALSE
    /\ instant_grow_mode = FALSE
    /\ fast_grow_mode = FALSE
    /\ frame_count = 0

LayoutIdle ==
    /\ root_node = UnknownId
    /\ tree_structure = EmptyMap
    /\ node_positions = EmptyMap
    /\ positioned_nodes = {}
    /\ stack = <<>>
    /\ visit = EmptyMap
    /\ placement = EmptyMap

\* ------------------------------------------------------------ layout of a tree
Init ==
    /\ \E n \in 0..MaxNodes :
          /\ nodes = NodeSeq(n)
          /\ links \in LinkSeqs(n)
    /\ \E c \in Configs :
          /\ max_depth = c.max_depth
          /\ min_branch_length = c.min_branch_length * LengthScale
          /\ root_x = c.root_x
          /\ root_y = c.root_y
          /\ branch_factor = c.branch_factor
    /\ branch_angle = DefaultBranchAngle * AngleScale
    /\ pc = "call"
    /\ LayoutIdle
    /\ node_count = 0
    /\ result = <<>>
    /\ GrowthIdle
    /\ MainIdle

\* layout_tree up to its call of place_nodes_recursively for the root
LayoutTree ==
    /\ pc = "call"
    /\ IF nodes = <<>>
       THEN /\ pc' = "done"
            /\ UNCHANGED <<root_node, tree_structure, node_positions,
                           positioned_nodes, stack, visit>>
       ELSE \E root_nodes \in FindRootNodes(nodes, links) :
               LET base_length == CalculateDynamicParameters(Len(nodes))[1] * LengthScale
                   root == root_nodes[1]
                   positions == PlaceRoot(root_nodes, root_x, root_y)
               IN  /\ root_node' = root
                   /\ tree_structure' = BuildTreeStructure(root, nodes, links)
                   /\ node_positions' = positions
                   /\ positioned_nodes' = DOMAIN positions
                   /\ stack' = <<Frame(root, Origin(root_x, root_y),
                                       UpAngle * AngleScale, base_length, 1)>>
                   /\ visit' = (root :> [angle |-> UpAngle * AngleScale,
                                         length |-> base_length, depth |-> 1])
                   /\ pc' = "place"
    /\ UNCHANGED <<nodes, links, branch_angle, branch_factor, min_branch_length,
                   max_depth, root_x, root_y, placement, paramVars, growthVars, mainVars>>

Top == stack[Len(stack)]

Children(node_id) ==
    IF node_id \in DOMAIN tree_structure THEN tree_structure[node_id] ELSE <<>>

\* the loop of the innermost call has a child left to look at
LoopRuns ==
    /\ pc = "place"
    /\ stack # <<>>
    /\ ~ShouldStop(Top.depth, Top.length, max_depth, min_branch_length)
    /\ Top.i < Len(Children(Top.node_id))

\* one iteration that finds its child already positioned: continue
SkipChild ==
    /\ LoopRuns
    /\ AlreadyPositioned(Children(Top.node_id)[Top.i + 1], positioned_nodes)
    /\ stack' = [stack EXCEPT ![Len(stack)].i = @ + 1]
    /\ UNCHANGED <<nodes, links, branch_angle, branch_factor, min_branch_length,
                   max_depth, root_x, root_y, pc, root_node, tree_structure,
                   node_positions, positioned_nodes, visit, placement, paramVars, growthVars, mainVars>>

\* one iteration that places its child and calls place_nodes_recursively on it
PlaceChild ==
    /\ LoopRuns
    /\ LET f            == Top
           children     == Children(f.node_id)
           num_branches == Len(children)
           child_id     == children[f.i + 1]
           delta        == Delta(f.i, num_branches, branch_angle)
           child_angle  == f.angle + delta
           end          == Polar(f.start, f.length, child_angle)
       IN  /\ ~AlreadyPositioned(child_id, positioned_nodes)
           /\ \E draw \in Draws(branch_factor) :
                 LET new_length == NewLength(f.length, draw)
                 IN  /\ node_positions' =
                            [n \in DOMAIN node_positions \cup {child_id} |->
                                IF n = child_id THEN end ELSE node_positions[n]]
                     /\ positioned_nodes' = positioned_nodes \cup {child_id}
                     /\ stack' = Append([stack EXCEPT ![Len(stack)].i = @ + 1],
                                        Frame(child_id, end, child_angle,
                                              new_length, f.depth + 1))
                     /\ visit' =
                            [n \in DOMAIN visit \cup {child_id} |->
                                IF n = child_id
                                THEN [angle |-> child_angle, length |-> new_length,
                                      depth |-> f.depth + 1]
                                ELSE visit[n]]
                     /\ placement' =
                            [n \in DOMAIN placement \cup {child_id} |->
                                IF n = child_id
                                THEN [parent |-> f.node_id, i |-> f.i,
                                      num_branches |-> num_branches,
                                      delta |-> delta, angle |-> child_angle,
                                      length |-> f.length, depth |-> f.depth,
                                      draw |-> draw, new_length |-> new_length]
                                ELSE placement[n]]
    /\ UNCHANGED <<nodes, links, branch_angle, branch_factor, min_branch_length,
                   max_depth, root_x, root_y, pc, root_node, tree_structure,
                   paramVars, growthVars, mainVars>>

\* the innermost call returns: at its entry checks, or when its loop ends;
\* the return of the root's call ends layout_tree
Return ==
    /\ pc = "place"
    /\ stack # <<>>
    /\ \/ ShouldStop(Top.depth, Top.length, max_depth, min_branch_length)
       \/ Top.i >= Len(Children(Top.node_id))
    /\ stack' = SubSeq(stack, 1, Len(stack) - 1)
    /\ pc' = IF Len(stack) = 1 THEN "done" ELSE "place"
    /\ UNCHANGED <<nodes, links, branch_angle, branch_factor, min_branch_length,
                   max_depth, root_x, root_y, root_node, tree_structure,
                   node_positions, positioned_nodes, visit, placement, paramVars, growthVars, mainVars>>

Next == LayoutTree \/ SkipChild \/ PlaceChild \/ Return

Spec == Init /\ [][Next]_vars

\* ------------------------------------- calculate_dynamic_parameters on its own
InitParams ==
    /\ nodes = <<>>
    /\ links = <<>>
    /\ max_depth = DefaultMaxDepth
    /\ min_branch_length = DefaultMinBranchLength * LengthScale
    /\ root_x = DefaultRootX
    /\ root_y = DefaultRootY
    /\ branch_angle = DefaultBranchAngle * AngleScale
    /\ branch_factor = DefaultBranchFactor
    /\ LayoutIdle
    /\ pc = "params"
    /\ node_count \in (0 - MaxNegative)..MaxCount
    /\ result = <<>>
    /\ GrowthIdle
    /\ MainIdle

CallCalculateDynamicParameters ==
    /\ pc = "params"
    /\ result' = CalculateDynamicParameters(node_count)
    /\ pc' = "returned"
    /\ UNCHANGED <<layoutVars, node_count, growthVars, mainVars>>

NextParams == CallCalculateDynamicParameters

SpecParams == InitParams /\ [][NextParams]_vars

\* ===================================================================== claims
Positioned == DOMAIN node_positions

LinkedTo == {links[i].to : i \in 1..Len(links)}

\* the nodes with no incoming link, as find_root_nodes computes them
RootSet == Range(nodes) \ LinkedTo

RECURSIVE ReachFrom(_)
ReachFrom(S) ==
    LET more == S \cup UNION {Range(Children(n)) : n \in S}
    IN  IF more = S THEN S ELSE ReachFrom(more)

\* the nodes reachable from the chosen root through the built tree structure
Reachable == ReachFrom({root_node})

Incoming(n) == {i \in 1..Len(links) : links[i].to = n}

\* the input is a rooted tree: known endpoints, one node without an incoming
\* edge, exactly one incoming edge for every other node, every node reachable
\* from the root
IsTreeInput ==
    /\ nodes # <<>>
    /\ \A i \in 1..Len(links) :
          links[i].from \in Range(nodes) /\ links[i].to \in Range(nodes)
    /\ Cardinality(RootSet) = 1
    /\ \A n \in Range(nodes) \ RootSet : Cardinality(Incoming(n)) = 1
    /\ ReachFrom(RootSet) = Range(nodes)

\* the parent of a non-root node of a tree input
ParentOf(n) == links[CHOOSE i \in Incoming(n) : TRUE].from

\* the call made for node p passed its entry tests
PassedEntry(p) ==
    /\ p \in DOMAIN visit
    /\ visit[p].depth < max_depth
    /\ visit[p].length >= min_branch_length

\* C1 (as claimed): for every tree input, layout_tree returns a position for
\* every node reachable from the root, however deep the node and however
\* short the branch length on the path to it.
C1_EveryReachableNodePositioned ==
    (pc = "done" /\ IsTreeInput) => Reachable \subseteq Positioned

\* C1 (amended): for every tree input, layout_tree returns a position for the
\* root and for every node whose parent has a position and was visited with
\* depth < max_depth and branch length >= min_branch_length, and for no
\* other node.
C1_NodesWithinLimitsPositioned ==
    (pc = "done" /\ IsTreeInput) =>
        /\ root_node \in Positioned
        /\ \A n \in Range(nodes) \ {root_node} :
              n \in Positioned <=>
                  (ParentOf(n) \in Positioned /\ PassedEntry(ParentOf(n)))

\* C1 witness: a three-node chain laid out completely, the last node placed
\* with a branch length already shorter than the base length
C1_Witness ==
    /\ pc = "done"
    /\ IsTreeInput
    /\ Len(nodes) = 3
    /\ Positioned = Range(nodes)
    /\ \E n \in DOMAIN placement :
          /\ placement[n].parent # root_node
          /\ placement[n].length < visit[root_node].length

\* C2: every key of the returned mapping is reachable from the chosen root
\* through the built tree structure, and a node without an incoming edge
\* other than the chosen root is never a key.
C2_KeysReachableFromRoot ==
    /\ Positioned \subseteq Reachable
    /\ \A n \in RootSet : n # root_node => n \notin Positioned

\* C2 witness: a finished layout of an input with several nodes without an
\* incoming edge, in which the chosen root has a placed child
C2_Witness ==
    /\ pc = "done"
    /\ Cardinality(RootSet) > 1
    /\ DOMAIN placement # {}

\* C3: for a non-empty node set the mapping contains the chosen root at
\* exactly (root_x, root_y), also when a cycle or self-loop makes the root a
\* child; a single node without edges yields exactly {node: origin}.
C3_RootAtOrigin ==
    /\ (pc \in {"place", "done"} /\ nodes # <<>>) =>
          /\ root_node \in Positioned
          /\ node_positions[root_node] = Origin(root_x, root_y)
    /\ (pc = "done" /\ Len(nodes) = 1 /\ links = <<>>) =>
          node_positions = (nodes[1] :> Origin(root_x, root_y))

\* C3 witness: a finished layout in which a call that passed its entry tests
\* had the root among its children
C3_Witness ==
    /\ pc = "done"
    /\ \E p \in Positioned :
          /\ PassedEntry(p)
          /\ root_node \in Range(Children(p))

\* C4 (as claimed): when more than one node has no incoming edge, the chosen
\* root is the first such node in the input node order.
C4_RootIsFirstInInputOrder ==
    (pc \in {"place", "done"} /\ Cardinality(RootSet) > 1) =>
        root_node = nodes[Min({i \in 1..Len(nodes) : nodes[i] \in RootSet})]

\* C5 (as claimed): the child sequence build_tree_structure stores for each
\* parent contains each child id at most once.
C5_ChildrenStoredOnce ==
    \A p \in DOMAIN tree_structure :
        \A i \in 1..Len(tree_structure[p]) : \A j \in 1..Len(tree_structure[p]) :
            i # j => tree_structure[p][i] # tree_structure[p][j]

\* C6 (as claimed): a node with exactly one distinct child id places that
\* child at the angle the node was visited with, at the node's current branch
\* length from the node's position.
C6_SingleChildStraight ==
    \A c \in DOMAIN placement :
        LET p == placement[c].parent
        IN  Cardinality(Range(Children(p))) = 1 =>
                /\ placement[c].angle = visit[p].angle
                /\ node_positions[c] =
                       Polar(node_positions[p], visit[p].length, visit[p].angle)

\* the children node p placed, and their angular offsets from p's angle
PlacedBy(p) == {c \in DOMAIN placement : placement[c].parent = p}

PlacedOffsets(p) == {placement[c].angle - visit[p].angle : c \in PlacedBy(p)}

\* the call made for p ran its loop over more than one child entry
ExpandedWithSeveral(p) == PassedEntry(p) /\ Len(Children(p)) > 1

\* the child entries of p are k distinct ids
DistinctChildren(p) == Cardinality(Range(Children(p))) = Len(Children(p))

SymmetricSpan(D) ==
    /\ D # {}
    /\ \A d \in D : (0 - d) \in D
    /\ Min(D) = 0 - branch_angle
    /\ Max(D) = branch_angle

\* every child entry of p was placed by p itself: none was skipped
NoneSkipped(p) ==
    \A i \in 1..Len(Children(p)) :
        LET c == Children(p)[i]
        IN  c \in PlacedBy(p) /\ placement[c].i = i - 1

\* C7 (as claimed): for every expanded node with k > 1 children (k distinct
\* ids) the angles at which its children are placed are symmetric about the
\* node's angle and span exactly 2 x branch_angle.
C7_PlacedAnglesSymmetric ==
    pc = "done" =>
        \A p \in Positioned :
            (ExpandedWithSeveral(p) /\ DistinctChildren(p))
                => SymmetricSpan(PlacedOffsets(p))

\* C7 (amended): for every expanded node with k > 1 child entries none of
\* which is skipped as already positioned, the angles at which its children
\* are placed are symmetric about the node's angle and span exactly
\* 2 x branch_angle; root 1 with children 2, 3 and branch_angle 35 degrees
\* places them at -125 and -55 degrees.
C7_UnskippedAnglesSymmetric ==
    pc = "done" =>
        /\ \A p \in Positioned :
              (ExpandedWithSeveral(p) /\ NoneSkipped(p))
                  => SymmetricSpan(PlacedOffsets(p))
        /\ (/\ nodes = <<1, 2, 3>>
            /\ links = <<[from |-> 1, to |-> 2], [from |-> 1, to |-> 3]>>
            /\ max_depth > 1
            /\ branch_angle = 35 * AngleScale) =>
                 /\ placement[2].angle = (0 - 125) * AngleScale
                 /\ placement[3].angle = (0 - 55) * AngleScale

\* C7 witness: a finished layout whose root placed two children, none skipped
C7_Witness ==
    /\ pc = "done"
    /\ nodes # <<>>
    /\ ExpandedWithSeveral(root_node)
    /\ NoneSkipped(root_node)
    /\ Cardinality(PlacedBy(root_node)) = 2

\* the recursion depth of a positioned node: root = 1, child = parent + 1
NodeDepth(n) == visit[n].depth

\* C8 (as claimed): every position in the result belongs to a node whose
\* recursion depth is strictly less than max_depth.
C8_DepthBelowMaxDepth ==
    \A n \in Positioned : NodeDepth(n) < max_depth

\* C8 (amended): every position in the result belongs to a node whose
\* recursion depth is at most max_depth; the call that placed a non-root
\* node had a depth strictly less than max_depth.
C8_DepthAtMostMaxDepth ==
    \A n \in Positioned :
        /\ NodeDepth(n) <= max_depth
        /\ n = root_node => NodeDepth(n) = 1
        /\ n \in DOMAIN placement =>
              /\ placement[n].depth < max_depth
              /\ NodeDepth(n) = NodeDepth(placement[n].parent) + 1

\* C8 witness: a finished layout holding a node whose depth equals max_depth
\* and whose children were therefore left out
C8_Witness ==
    /\ pc = "done"
    /\ \E n \in DOMAIN placement :
          /\ NodeDepth(n) = max_depth
          /\ Children(n) # <<>>
          /\ \A i \in 1..Len(Children(n)) : Children(n)[i] \notin Positioned

\* the limits of random.uniform(0.8, branch_factor), in either order
DrawLow == IF branch_factor < LowDraw THEN branch_factor ELSE LowDraw

DrawHigh == IF branch_factor < LowDraw THEN LowDraw ELSE branch_factor

\* C9: every non-root position was computed from a branch length
\* L >= min_branch_length; siblings placed by the same parent use the same L;
\* the length passed down to a child's own children is L times a factor
\* drawn between 0.8 and branch_factor.
C9_LengthsWithinLimits ==
    \A c \in DOMAIN placement :
        /\ placement[c].length >= min_branch_length
        /\ node_positions[c] =
              Polar(node_positions[placement[c].parent],
                    placement[c].length, placement[c].angle)
        /\ \A d \in PlacedBy(placement[c].parent) :
              placement[d].length = placement[c].length
        /\ \E f \in DrawLow..DrawHigh :
              visit[c].length = (placement[c].length * f) \div 100
        /\ \A d \in PlacedBy(c) : placement[d].length = visit[c].length

\* C9 witness: a finished layout in which a placed child has placed a child
\* of its own with the decayed length
C9_Witness ==
    /\ pc = "done"
    /\ \E c \in DOMAIN placement : \E d \in PlacedBy(c) :
          placement[d].length < placement[c].length

\* C10: calculate_dynamic_parameters returns (100, 60) for 0..10, (120, 80)
\* for 11..30, (150, 100) for 31..60, (180, 120) for every count >= 61 and
\* for every negative count; exactly one band applies to each non-negative
\* count.
C10_BandValues ==
    /\ pc = "returned" =>
          result = IF node_count < 0 THEN <<180, 120>>
                   ELSE IF node_count <= 10 THEN <<100, 60>>
                   ELSE IF node_count <= 30 THEN <<120, 80>>
                   ELSE IF node_count <= 60 THEN <<150, 100>>
                   ELSE <<180, 120>>
    /\ node_count >= 0 =>
          Cardinality({i \in 1..Len(scaling_configs) :
                          InBand(scaling_configs[i], node_count)}) = 1

\* C10 witness: the call returned the top band for a negative count
C10_Witness ==
    /\ pc = "returned"
    /\ node_count < 0
    /\ result = <<180, 120>>

\* C11: during one layout_tree call a position, once given, is never
\* overwritten; a call of place_nodes_recursively is made only for a node
\* that had no position before the step; and positioned_nodes is the key set
\* of node_positions at every step.
C11_PositionedOnce ==
    /\ [](positioned_nodes = DOMAIN node_positions)
    /\ [][/\ \A n \in DOMAIN node_positions :
                /\ n \in DOMAIN node_positions'
                /\ node_positions'[n] = node_positions[n]
          /\ Len(stack') > Len(stack) =>
                stack'[Len(stack')].node_id \notin positioned_nodes]_vars

\* C11 witness: a finished layout in which a call that ran its loop skipped
\* one of its child entries (duplicate edge, second parent or cycle)
C11_Witness ==
    /\ pc = "done"
    /\ \E p \in Positioned :
          /\ PassedEntry(p)
          /\ Children(p) # <<>>
          /\ ~NoneSkipped(p)

\* C12 (as claimed): two calls with the same nodes, edges, origin, parameters
\* and random draws return the same mapping, with the same root: every root
\* a call with these inputs can choose is the root this call chose.
C12_SameInputsSameRoot ==
    (pc \in {"place", "done"} /\ nodes # <<>>) =>
        \A root_nodes \in FindRootNodes(nodes, links) : root_nodes[1] = root_node

\* ======================================================================
\* tree_reaction_simulation.py: class Branch and the instant growth path.
\*
\* A Branch object is a record; its children list holds the child records,
\* so a root record is the whole subtree.  The module constants are read
\* from the variable growth, so that runs with other values than the
\* shipped ones are covered; with the shipped values a tree has more than
\* a thousand branches.
\* ======================================================================

\* Branch.__init__
Branch(start, angle, length, depth) ==
    [start |-> start, angle |-> angle, length |-> 0, target_length |-> length,
     depth |-> depth, finished |-> FALSE, children |-> <<>>, static |-> FALSE]

\* GetEnd computed from the target length
GetEnd_TargetLength(b) ==
    Polar(b.start, b.target_length, b.angle)

\* Branch.get_end
GetEnd(b) ==
    Polar(b.start, b.length, b.angle)

\* CanSpawn that lets a finished branch create children again
CanSpawn_AlsoFinished(b) ==
    /\ b.depth < growth.max_depth
    /\ b.target_length > growth.min_branch_length

\* the condition under which grow and grow_branch_instantly create children
CanSpawn(b) ==
    /\ ~b.finished
    /\ b.depth < growth.max_depth
    /\ b.target_length > growth.min_branch_length

\* the values delta can take for a parent of the given depth:
\* random.uniform(-BRANCH_ANGLE, BRANCH_ANGLE) is represented by its limits
DeltaDraws(depth) ==
    IF depth = 1
    THEN {0}
    ELSE {0 - growth.branch_angle, growth.branch_angle}

\* random.choice([2, 3])
NumBranches == {2, 3}

\* the draws of one spawn: a delta and a length factor for each of the
\* num_branches candidates
CandidateSeqs(b) ==
    UNION {[1..k -> DeltaDraws(b.depth) \X Draws(growth.branch_factor)] :
               k \in NumBranches}

\* Spawn that turns each child by twice its delta
Spawn_TwiceDelta(b, cands) ==
    LET Kept(c) == NewLength(b.target_length, c[2]) >= growth.min_branch_length
        kept == SelectSeq(cands, Kept)
    IN  [i \in 1..Len(kept) |->
            Branch(GetEnd(b), b.angle + 2 * kept[i][1],
                   NewLength(b.target_length, kept[i][2]), b.depth + 1)]

\* the children appended for one sequence of draws: a candidate is kept
\* when new_length >= MIN_BRANCH_LENGTH
Spawn(b, cands) ==
    LET Kept(c) == NewLength(b.target_length, c[2]) >= growth.min_branch_length
        kept == SelectSeq(cands, Kept)
    IN  [i \in 1..Len(kept) |->
            Branch(GetEnd(b), b.angle + kept[i][1],
                   NewLength(b.target_length, kept[i][2]), b.depth + 1)]

\* every child list one spawn of b can append
ChildrenChoices(b) ==
    {Spawn(b, cands) : cands \in CandidateSeqs(b)}

\* MarkStatic that does not look at the children
MarkStatic_FinishedOnly(b) ==
    IF b.finished
    THEN [b EXCEPT !.static = TRUE]
    ELSE b

\* the end of grow: static when finished and every child is static
MarkStatic(b) ==
    IF b.finished /\ \A i \in 1..Len(b.children) : b.children[i].static
    THEN [b EXCEPT !.static = TRUE]
    ELSE b

\* GrowSet that marks a branch finished also when it may not spawn
GrowSet_FinishesWithoutSpawn(b) ==
    IF b.length < b.target_length
    THEN {[b EXCEPT !.length = Min({b.length + growth.growth_speed,
                                     b.target_length})]}
    ELSE LET spawned ==
                 IF CanSpawn(b)
                 THEN {[b EXCEPT !.finished = TRUE, !.children = @ \o cs] :
                           cs \in ChildrenChoices(b)}
                 ELSE {[b EXCEPT !.finished = TRUE]}
         IN  {MarkStatic(b2) : b2 \in spawned}

\* GrowSet that spawns before the branch has grown to its target length
GrowSet_SpawnsFirst(b) ==
    IF CanSpawn(b)
    THEN {MarkStatic([b EXCEPT !.finished = TRUE, !.children = @ \o cs]) :
              cs \in ChildrenChoices(b)}
    ELSE IF b.length < b.target_length
         THEN {[b EXCEPT !.length = Min({b.length + growth.growth_speed,
                                          b.target_length})]}
         ELSE {MarkStatic(b)}

\* GrowSet that spawns in the call in which the length reaches the target
GrowSet_SpawnsOnArrival(b) ==
    LET grown == IF b.length < b.target_length
                 THEN [b EXCEPT !.length = Min({b.length + growth.growth_speed,
                                                 b.target_length})]
                 ELSE b
    IN  IF grown.length < grown.target_length
        THEN {grown}
        ELSE LET spawned ==
                     IF CanSpawn(grown)
                     THEN {[grown EXCEPT !.finished = TRUE,
                                         !.children = @ \o cs] :
                               cs \in ChildrenChoices(grown)}
                     ELSE {grown}
             IN  {MarkStatic(b2) : b2 \in spawned}

\* Branch.grow: the set of outcomes over the random draws
GrowSet(b) ==
    IF b.length < b.target_length
    THEN {[b EXCEPT !.length = Min({b.length + growth.growth_speed,
                                     b.target_length})]}
    ELSE LET spawned ==
                 IF CanSpawn(b)
                 THEN {[b EXCEPT !.finished = TRUE, !.children = @ \o cs] :
                           cs \in ChildrenChoices(b)}
                 ELSE {b}
         IN  {MarkStatic(b2) : b2 \in spawned}

RECURSIVE UpdateSet(_, _)
RECURSIVE UpdateChildren(_, _)
\* UpdateSet that checks for static once more after the children's update
UpdateSet_StaticCheckLast(b, grow_this_frame) ==
    IF b.static
    THEN {b}
    ELSE LET grown == IF grow_this_frame THEN GrowSet(b) ELSE {b}
         IN  UNION {{IF grow_this_frame
                     THEN MarkStatic([b2 EXCEPT !.children = cs])
                     ELSE [b2 EXCEPT !.children = cs] :
                         cs \in UpdateChildren(b2.children, grow_this_frame)} :
                    b2 \in grown}

\* Branch.update: the set of outcomes of update(grow_this_frame) on b
UpdateSet(b, grow_this_frame) ==
    IF b.static
    THEN {b}
    ELSE LET grown == IF grow_this_frame THEN GrowSet(b) ELSE {b}
         IN  UNION {{[b2 EXCEPT !.children = cs] :
                         cs \in UpdateChildren(b2.children, grow_this_frame)} :
                    b2 \in grown}

\* the loop of update over a list of branches
UpdateChildren(cs, grow_this_frame) ==
    IF cs = <<>>
    THEN {<<>>}
    ELSE {<<c>> \o rest : c \in UpdateSet(Head(cs), grow_this_frame),
                          rest \in UpdateChildren(Tail(cs), grow_this_frame)}

RECURSIVE InstantSet(_)
RECURSIVE InstantChildren(_)
\* grow_branch_instantly: the set of outcomes over the random draws
InstantSet(branch) ==
    LET b == [branch EXCEPT !.length = branch.target_length]
    IN  IF CanSpawn(b)
        THEN UNION {{[b EXCEPT !.finished = TRUE, !.children = @ \o grown] :
                         grown \in InstantChildren(cs)} :
                    cs \in ChildrenChoices(b)}
        ELSE {b}

\* grow_branch_instantly on each newly created child
InstantChildren(cs) ==
    IF cs = <<>>
    THEN {<<>>}
    ELSE {<<c>> \o rest : c \in InstantSet(Head(cs)),
                          rest \in InstantChildren(Tail(cs))}

\* instant_grow_all_branches
InstantGrowAll(bs) ==
    InstantChildren(bs)

RECURSIVE CountBranchEnds(_)
RECURSIVE SumCounts(_)
\* CountBranchEnds that counts a branch with children too
CountBranchEnds_EveryBranch(b) ==
    IF b.children = <<>>
    THEN 1
    ELSE 1 + SumCounts(b.children)

\* Branch.count_branch_ends
CountBranchEnds(b) ==
    IF b.children = <<>>
    THEN 1
    ELSE SumCounts(b.children)

\* sum(child.count_branch_ends() for child in self.children)
SumCounts(cs) ==
    IF cs = <<>>
    THEN 0
    ELSE CountBranchEnds(Head(cs)) + SumCounts(Tail(cs))

\* the seed position of main: (WIDTH // 2, HEIGHT - 50)
SeedStart == Origin(WIDTH \div 2, HEIGHT - 50)

\* the runs: the growth parameters and the seed Branch(start, angle, length,
\* depth) of each.  The first keeps the shipped factor, angle, depth limit
\* and seed; the others make the limits on depth and length bind.
GrowthConfigs ==
    { [growth_speed |-> 60 * LengthScale, branch_angle |-> BRANCH_ANGLE * AngleScale,
       branch_factor |-> BRANCH_FACTOR, min_branch_length |-> 70 * LengthScale,
       max_depth |-> MAX_DEPTH, seed_length |-> SeedLength * LengthScale,
       seed_depth |-> 1],
      [growth_speed |-> 40 * LengthScale, branch_angle |-> BRANCH_ANGLE * AngleScale,
       branch_factor |-> BRANCH_FACTOR, min_branch_length |-> 80 * LengthScale,
       max_depth |-> 2, seed_length |-> SeedLength * LengthScale,
       seed_depth |-> 1],
      [growth_speed |-> 40 * LengthScale, branch_angle |-> BRANCH_ANGLE * AngleScale,
       branch_factor |-> BRANCH_FACTOR, min_branch_length |-> 68 * LengthScale,
       max_depth |-> MAX_DEPTH, seed_length |-> 80 * LengthScale,
       seed_depth |-> 1],
      [growth_speed |-> 60 * LengthScale, branch_angle |-> BRANCH_ANGLE * AngleScale,
       branch_factor |-> 100, min_branch_length |-> 90 * LengthScale,
       max_depth |-> 3, seed_length |-> SeedLength * LengthScale,
       seed_depth |-> 2],
      [growth_speed |-> GROWTH_SPEED * LengthScale,
       branch_angle |-> BRANCH_ANGLE * AngleScale,
       branch_factor |-> BRANCH_FACTOR,
       min_branch_length |-> MIN_BRANCH_LENGTH * LengthScale,
       max_depth |-> MAX_DEPTH, seed_length |-> 2 * LengthScale,
       seed_depth |-> 1] }

\* a branch as Branch.__init__ leaves it
Fresh(b) ==
    /\ b.length = 0
    /\ ~b.finished
    /\ b.children = <<>>
    /\ ~b.static

\* branches = [Branch((WIDTH // 2, HEIGHT - 50), -math.pi / 2, 100, 1)]
InitGrowth ==
    /\ nodes = <<>>
    /\ links = <<>>
    /\ max_depth = DefaultMaxDepth
    /\ min_branch_length = DefaultMinBranchLength * LengthScale
    /\ root_x = DefaultRootX
    /\ root_y = DefaultRootY
    /\ branch_angle = DefaultBranchAngle * AngleScale
    /\ branch_factor = DefaultBranchFactor
    /\ LayoutIdle
    /\ pc = "growth"
    /\ node_count = 0
    /\ result = <<>>
    /\ \E c \in GrowthConfigs :
          /\ growth = [growth_speed |-> c.growth_speed,
                       branch_angle |-> c.branch_angle,
                       branch_factor |-> c.branch_factor,
                       min_branch_length |-> c.min_branch_length,
                       max_depth |-> c.max_depth]
          /\ branches = <<Branch(SeedStart, UpAngle * AngleScale,
                                 c.seed_length, c.seed_depth)>>
    /\ last_op = "new"
    /\ was_fresh = FALSE
    /\ MainIdle

\* branch.update(grow_this_frame) in a frame that grows
UpdateActive ==
    /\ pc = "growth"
    /\ branches' \in UpdateChildren(branches, TRUE)
    /\ last_op' = "update"
    /\ was_fresh' = \A i \in 1..Len(branches) : Fresh(branches[i])
    /\ UNCHANGED <<layoutVars, pc, paramVars, growth, mainVars>>

\* branch.update(grow_this_frame) in a frame that does not grow
UpdateInactive ==
    /\ pc = "growth"
    /\ branches' \in UpdateChildren(branches, FALSE)
    /\ last_op' = "idle"
    /\ was_fresh' = \A i \in 1..Len(branches) : Fresh(branches[i])
    /\ UNCHANGED <<layoutVars, pc, paramVars, growth, mainVars>>

\* instant_grow_all_branches(branches)
InstantGrowAllBranches ==
    /\ pc = "growth"
    /\ branches' \in InstantGrowAll(branches)
    /\ last_op' = "instant"
    /\ was_fresh' = \A i \in 1..Len(branches) : Fresh(branches[i])
    /\ UNCHANGED <<layoutVars, pc, paramVars, growth, mainVars>>

NextGrowth ==
    \/ UpdateActive
    \/ UpdateInactive
    \/ InstantGrowAllBranches

SpecGrowth == InitGrowth /\ [][NextGrowth]_vars

\* ------------------------------------------------- claims on the simulation
RECURSIVE PathsOf(_)
\* the branches of the subtree of b, each named by the child indexes that
\* lead to it from b
PathsOf(b) ==
    {<<>>} \cup UNION {{<<i>> \o p : p \in PathsOf(b.children[i])} :
                          i \in 1..Len(b.children)}

RECURSIVE At(_, _)
\* the branch of the subtree of b that path p leads to
At(b, p) ==
    IF p = <<>> THEN b ELSE At(b.children[Head(p)], Tail(p))

\* every branch of the forest bs: the index of its root, then its path
ForestPaths(bs) ==
    UNION {{<<r>> \o p : p \in PathsOf(bs[r])} : r \in 1..Len(bs)}

BranchAt(bs, p) ==
    At(bs[Head(p)], Tail(p))

\* a branch that the limits on length and depth keep from having children
IsLimitLeaf(b) ==
    \/ b.target_length <= growth.min_branch_length
    \/ b.depth >= growth.max_depth

\* C13 (as claimed): a branch with target_length <= min_branch_length or
\* depth >= max_depth whose length has reached its target is, after an
\* active tick, finished with zero children.
C13_LimitLeafFinishes ==
    [][last_op' = "update" =>
          \A p \in ForestPaths(branches) :
              LET b == BranchAt(branches, p)
              IN  (IsLimitLeaf(b) /\ b.length = b.target_length) =>
                      /\ BranchAt(branches', p).finished
                      /\ BranchAt(branches', p).children = <<>>]_vars

\* every branch of the forest is static
AllStatic(bs) ==
    \A p \in ForestPaths(bs) : BranchAt(bs, p).static

\* no further active tick changes any branch of the forest
Quiescent(bs) ==
    UpdateChildren(bs, TRUE) = {bs}

\* C14 (as claimed): growth ticks take every branch to static, so a forest
\* that was just ticked and that further active ticks no longer change has
\* every branch static, its leaves and roots included.
C14_GrowthEndsAllStatic ==
    (last_op = "update" /\ Quiescent(branches)) => AllStatic(branches)

\* the static-eligible state: finished, and grown to the target length
StaticEligible(b) ==
    /\ b.finished
    /\ b.length = b.target_length

\* C15 (as claimed): after grow_branch_instantly on a freshly created branch
\* every branch of the resulting subtree, the branch itself and every leaf
\* included, is finished with length = target_length.
C15_InstantAllStaticEligible ==
    (last_op = "instant" /\ was_fresh) =>
        \A p \in ForestPaths(branches) : StaticEligible(BranchAt(branches, p))

\* C16: grow_branch_instantly ends with a finite subtree for every choice of
\* draws, also when branch_factor >= 1: a branch it creates is not deeper
\* than max_depth, and no branch has more than 3 children after it.
C16_InstantGrowBounded ==
    [][last_op' = "instant" =>
          \A p \in ForestPaths(branches') :
              /\ p \notin ForestPaths(branches) =>
                     BranchAt(branches', p).depth <= growth.max_depth
              /\ Len(BranchAt(branches', p).children) <= 3]_vars

C16_Witness ==
    /\ last_op = "instant"
    /\ was_fresh
    /\ growth.branch_factor >= 100
    /\ \E p \in ForestPaths(branches) :
          /\ Len(p) > 1
          /\ BranchAt(branches, p).depth = growth.max_depth
          /\ BranchAt(branches, p).target_length >= branches[1].target_length
    /\ \E p \in ForestPaths(branches) : Len(BranchAt(branches, p).children) = 3

RECURSIVE Shape(_)
\* what the spawn decisions made of a branch: its depth, angle, target
\* length and finished flag, and the same of each child
Shape(b) ==
    [depth |-> b.depth, angle |-> b.angle, target_length |-> b.target_length,
     finished |-> b.finished,
     children |-> [i \in 1..Len(b.children) |-> Shape(b.children[i])]]

RECURSIVE TickFinals(_)
\* the trees that repeated update(True) calls on b can end in: those that a
\* further call no longer changes
TickFinals(b) ==
    IF UpdateSet(b, TRUE) = {b}
    THEN {b}
    ELSE UNION {TickFinals(b2) : b2 \in UpdateSet(b, TRUE)}

\* the branch as it was created
Seed(b) ==
    Branch(b.start, b.angle, b.target_length, b.depth)

\* C17: for the same seed branch and parameters, the trees that
\* grow_branch_instantly can produce over all draws and the trees that
\* repeated active ticks can end in are the same set, compared per branch
\* on depth, angle, target_length, children and finished flag.
C17_SameFinalTrees ==
    last_op = "new" =>
        \A i \in 1..Len(branches) :
            {Shape(t) : t \in InstantSet(branches[i])} =
                {Shape(t) : t \in TickFinals(branches[i])}

C17_Witness ==
    /\ last_op = "update"
    /\ Quiescent(branches)
    /\ \E p \in ForestPaths(branches) :
          /\ Len(p) = 2
          /\ BranchAt(branches, p).angle # branches[1].angle
          /\ BranchAt(branches, p).children = <<>>
          /\ ~BranchAt(branches, p).finished
    /\ Shape(branches[1]) \in
           {Shape(t) : t \in InstantSet(Seed(branches[1]))}

\* C18 (as claimed): in every state of a branch get_end is the fully grown
\* endpoint start + target_length * (cos angle, sin angle), whatever the
\* current length is.
C18_GetEndIsFullyGrownEnd ==
    \A p \in ForestPaths(branches) :
        LET b == BranchAt(branches, p)
        IN  GetEnd(b) = Polar(b.start, b.target_length, b.angle)

\* C18 (amended): get_end is the endpoint at the current length; it is the
\* fully grown endpoint exactly when length = target_length, and the start
\* of every child is the fully grown endpoint of its parent.
C18_GetEndFollowsLength ==
    \A p \in ForestPaths(branches) :
        LET b == BranchAt(branches, p)
        IN  /\ (GetEnd(b) = Polar(b.start, b.target_length, b.angle))
                   <=> (b.length = b.target_length)
            /\ \A i \in 1..Len(b.children) :
                   /\ b.length = b.target_length
                   /\ b.children[i].start = GetEnd(b)

C18_Witness ==
    \E p \in ForestPaths(branches) :
        LET b == BranchAt(branches, p)
        IN  /\ Len(p) > 1
            /\ 0 < b.length
            /\ b.length < b.target_length
            /\ GetEnd(b) # Polar(b.start, b.target_length, b.angle)

\* the branches without children in the subtree of b
Ends(b) ==
    {q \in PathsOf(b) : At(b, q).children = <<>>}

\* C19: in every reachable state count_branch_ends of a branch without
\* children is 1, of a branch with children the sum of its children's
\* counts, and so the number of branches without children in its subtree.
C19_CountsChildlessBranches ==
    \A p \in ForestPaths(branches) :
        LET b == BranchAt(branches, p)
        IN  /\ b.children = <<>> => CountBranchEnds(b) = 1
            /\ b.children # <<>> => CountBranchEnds(b) = SumCounts(b.children)
            /\ CountBranchEnds(b) = Cardinality(Ends(b))

C19_Witness ==
    /\ Len(branches[1].children) = 3
    /\ CountBranchEnds(branches[1]) > 3
    /\ \E p \in ForestPaths(branches) :
          /\ BranchAt(branches, p).children = <<>>
          /\ BranchAt(branches, p).length < BranchAt(branches, p).target_length

\* C20: a static branch is finished, has length = target_length and only
\* static descendants; update on it, active or not, returns it unchanged;
\* and no call on the forest changes a static branch, its flag, length,
\* target, children or any descendant.
C20_StaticIsTerminal ==
    /\ [](\A p \in ForestPaths(branches) :
              LET b == BranchAt(branches, p)
              IN  b.static =>
                      /\ StaticEligible(b)
                      /\ \A q \in PathsOf(b) : At(b, q).static
                      /\ \A g \in BOOLEAN : UpdateSet(b, g) = {b})
    /\ [][\A p \in ForestPaths(branches) :
              BranchAt(branches, p).static =>
                  /\ p \in ForestPaths(branches')
                  /\ BranchAt(branches', p) = BranchAt(branches, p)]_vars

C20_Witness ==
    /\ last_op = "idle"
    /\ branches[1].static
    /\ \E p \in ForestPaths(branches) :
          /\ Len(p) = 3
          /\ BranchAt(branches, p).angle # branches[1].angle

\* the children of b as they were created, in list order
ChildSeeds(b) ==
    [i \in 1..Len(b.children) |-> Seed(b.children[i])]

\* C21: over update ticks a branch spawns exactly once: finished never goes
\* back to false, and the child list changes only in the call that sets
\* finished, made with length = target_length; afterwards no child is added
\* or removed.
C21_SpawnsExactlyOnce ==
    [][last_op' \in {"update", "idle"} =>
          \A p \in ForestPaths(branches) :
              LET b == BranchAt(branches, p)
                  b2 == BranchAt(branches', p)
              IN  /\ p \in ForestPaths(branches')
                  /\ b.finished => b2.finished /\ ChildSeeds(b2) = ChildSeeds(b)
                  /\ ChildSeeds(b2) # ChildSeeds(b) =>
                         /\ ~b.finished
                         /\ b2.finished
                         /\ b.length = b.target_length
                         /\ last_op' = "update"
                  /\ (~b.finished /\ b2.finished) =>
                         b.length = b.target_length]_vars

C21_Witness ==
    /\ last_op = "update"
    /\ \E p \in ForestPaths(branches) :
          LET b == BranchAt(branches, p)
          IN  /\ Len(p) = 2
              /\ b.finished
              /\ Len(b.children) = 2
              /\ b.children[1].length = b.children[1].target_length
              /\ b.children[1].finished

\* ======================================================================
\* tree_reaction_simulation.py: main, the simulation loop.  The handling of
\* one event and the rest of one loop iteration are one action each; the
\* colour scheme and the drawing are left out.
\* ======================================================================

\* grow_this_frame
GrowThisFrame ==
    IF fast_grow_mode
    THEN frame_count % 2 = 0
    ELSE frame_count % GROW_EVERY_N_FRAMES = 0

\* total_ends = sum(branch.count_branch_ends() for branch in branches)
TotalEnds(bs) ==
    SumCounts(bs)

\* ReachedLimit that asks for more ends than the limit
ReachedLimit_Exceeded(bs) ==
    TotalEnds(bs) > growth.max_branch_ends

\* total_ends >= MAX_BRANCH_ENDS
ReachedLimit(bs) ==
    TotalEnds(bs) >= growth.max_branch_ends

\* AllRootsStatic that asks for finished roots only
AllRootsStatic_Finished(bs) ==
    /\ bs # <<>>
    /\ \A i \in 1..Len(bs) : bs[i].finished

\* branches and all(branch.static for branch in branches)
AllRootsStatic(bs) ==
    /\ bs # <<>>
    /\ \A i \in 1..Len(bs) : bs[i].static

\* [Branch((WIDTH // 2, HEIGHT - 50), -math.pi / 2, 100, 1)]
NewTree ==
    <<Branch(SeedStart, UpAngle * AngleScale, SeedLength * LengthScale, 1)>>

\* the runs of the loop: the seed and the depth limit are the shipped ones;
\* every child is 0.8 of its parent and straight on, so that a tree has
\* three levels and 4 to 9 ends; the limit on the branch ends is the
\* shipped one, which these trees do not reach, or a small one
MainConfigs ==
    { [growth_speed |-> SeedLength * LengthScale, branch_angle |-> 0,
       branch_factor |-> LowDraw, min_branch_length |-> 60 * LengthScale,
       max_depth |-> MAX_DEPTH, max_branch_ends |-> e] :
          e \in {2, 4, MAX_BRANCH_ENDS} }

InitMain ==
    /\ nodes = <<>>
    /\ links = <<>>
    /\ max_depth = DefaultMaxDepth
    /\ min_branch_length = DefaultMinBranchLength * LengthScale
    /\ root_x = DefaultRootX
    /\ root_y = DefaultRootY
    /\ branch_angle = DefaultBranchAngle * AngleScale
    /\ branch_factor = DefaultBranchFactor
    /\ LayoutIdle
    /\ pc = "main"
    /\ node_count = 0
    /\ result = <<>>
    /\ growth \in MainConfigs
    /\ branches = <<>>
    /\ last_op = "none"
    /\ was_fresh = FALSE
    /\ MainIdle

\* button 1: a new tree, grown instantly
Button1 ==
    /\ pc = "main"
    /\ branches' \in InstantGrowAll(NewTree)
    /\ growing' = TRUE
    /\ fast_grow_mode' = FALSE
    /\ frame_count' = 0
    /\ instant_grow_mode' = TRUE
    /\ paused' = TRUE
    /\ last_op' = "button1"
    /\ was_fresh' = TRUE
    /\ UNCHANGED <<layoutVars, pc, paramVars, growth>>

\* button 3: a new tree, grown by ticks
Button3 ==
    /\ pc = "main"
    /\ branches' = NewTree
    /\ growing' = TRUE
    /\ paused' = FALSE
    /\ instant_grow_mode' = FALSE
    /\ fast_grow_mode' = TRUE
    /\ frame_count' = 0
    /\ last_op' = "button3"
    /\ was_fresh' = FALSE
    /\ UNCHANGED <<layoutVars, pc, paramVars, growth>>

\* one loop iteration after its events
LoopIteration ==
    /\ pc = "main"
    /\ frame_count < MaxFrames
    /\ IF growing /\ ~paused /\ branches # <<>>
       THEN /\ branches' \in UpdateChildren(branches, GrowThisFrame)
            /\ paused' = ReachedLimit(branches')
            /\ growing' = ~AllRootsStatic(branches')
            /\ last_op' = IF GrowThisFrame THEN "update" ELSE "idle"
            /\ was_fresh' = \A i \in 1..Len(branches) : Fresh(branches[i])
       ELSE /\ UNCHANGED <<branches, paused, growing>>
            /\ last_op' = "draw"
            /\ was_fresh' = FALSE
    /\ frame_count' = frame_count + 1
    /\ UNCHANGED <<layoutVars, pc, paramVars, growth, instant_grow_mode,
                   fast_grow_mode>>

\* pygame.QUIT
Quit ==
    /\ pc = "main"
    /\ pc' = "quit"
    /\ UNCHANGED <<layoutVars, paramVars, growthVars, mainVars>>

NextMain ==
    \/ Button1
    \/ Button3
    \/ LoopIteration
    \/ Quit

SpecMain == InitMain /\ [][NextMain]_vars

\* ----------------------------------------------------- claims on the loop
\* the step is the handling of button 1 or button 3, which replace the forest
ReplacesForest ==
    \/ Button1
    \/ Button3

\* C22: after a tick that leaves the summed count of branch ends at or above
\* the limit the loop is paused, and while it is paused no step other than
\* the replacement of the forest changes any branch or ends the pause.
C22_LimitSuspendsGrowth ==
    /\ []((/\ last_op \in {"update", "idle"}
           /\ TotalEnds(branches) >= growth.max_branch_ends) => paused)
    /\ [][(paused /\ ~ReplacesForest) =>
              (branches' = branches /\ paused')]_vars

C22_Witness ==
    /\ paused
    /\ ~instant_grow_mode
    /\ last_op = "draw"
    /\ TotalEnds(branches) >= growth.max_branch_ends
    /\ (\E i \in 1..Len(branches) : ~branches[i].static)
    /\ \E p \in ForestPaths(branches) :
          /\ Len(p) = 3
          /\ ~BranchAt(branches, p).finished

\* C23: the loop clears growing only in a step that leaves every root static,
\* and whenever a forest exists and growing is false every root is static.
C23_CompleteOnlyWhenStatic ==
    /\ []((branches # <<>> /\ ~growing) =>
              (\A i \in 1..Len(branches) : branches[i].static))
    /\ [][(growing /\ ~growing') =>
              (\A i \in 1..Len(branches') : branches'[i].static)]_vars

C23_Witness ==
    /\ ~growing
    /\ branches # <<>>
    /\ fast_grow_mode
    /\ (\A i \in 1..Len(branches) : branches[i].static)
    /\ \E p \in ForestPaths(branches) : Len(p) = 3

\* every child of b is static
ChildrenStatic(b) ==
    \A i \in 1..Len(b.children) : b.children[i].static

\* C24 (as claimed): in an active update call on a finished branch the
\* static check runs after the children's update, so the branch is static
\* after the call in which its last non-static child became static.
C24_StaticInSameCall ==
    [][last_op' = "update" =>
          \A p \in ForestPaths(branches) :
              LET b == BranchAt(branches, p)
                  b2 == BranchAt(branches', p)
              IN  (b.finished /\ ~b.static /\ ChildrenStatic(b2)) => b2.static]_vars

\* C24 (amended): the static check runs in grow, before the children's
\* update: a branch becomes static in an active update call only when all its
\* children were static before the call, and a finished branch whose
\* children were all static before the call is static after it.
C24_StaticOneLevelPerTick ==
    [][last_op' = "update" =>
          \A p \in ForestPaths(branches) :
              LET b == BranchAt(branches, p)
                  b2 == BranchAt(branches', p)
              IN  /\ (~b.static /\ b2.static) => ChildrenStatic(b)
                  /\ (b.finished /\ ChildrenStatic(b)) => b2.static]_vars

C24_Witness ==
    /\ last_op = "update"
    /\ ~branches[1].static
    /\ branches[1].children # <<>>
    /\ ChildrenStatic(branches[1])
    /\ \E p \in ForestPaths(branches) : Len(p) = 3

\* C25 (as claimed): after grow_branch_instantly, called in any state that
\* update ticks reach, every branch of the subtree has length =
\* target_length and has run its spawn step.
C25_InstantResolvesDescendants ==
    last_op = "instant" =>
        \A p \in ForestPaths(branches) :
            LET b == BranchAt(branches, p)
            IN  /\ b.length = b.target_length
                /\ ~CanSpawn(b)

\* the absolute value of an angle difference
Abs(x) ==
    IF x < 0 THEN 0 - x ELSE x

\* C26: in every reachable state of a forest grown by ticks or instantly, a
\* branch has at most 3 children, and none before it is finished; every
\* child has target_length >= min_branch_length, its parent's depth + 1,
\* which is at most max_depth, and starts at its parent's fully grown end;
\* a child of a depth-1 branch has the parent's angle, a deeper child an
\* angle within branch_angle of the parent's.
C26_ChildInvariants ==
    \A p \in ForestPaths(branches) :
        LET b == BranchAt(branches, p)
        IN  /\ Len(b.children) <= 3
            /\ ~b.finished => b.children = <<>>
            /\ \A i \in 1..Len(b.children) :
                   LET c == b.children[i]
                   IN  /\ c.target_length >= growth.min_branch_length
                       /\ c.depth = b.depth + 1
                       /\ c.depth <= growth.max_depth
                       /\ c.start = Polar(b.start, b.target_length, b.angle)
                       /\ b.depth = 1 => c.angle = b.angle
                       /\ Abs(c.angle - b.angle) <= growth.branch_angle

C26_Witness ==
    /\ last_op \in {"update", "instant"}
    /\ Len(branches[1].children) = 3
    /\ branches[1].depth = 1
    /\ \E p \in ForestPaths(branches) :
          LET b == BranchAt(branches, p)
          IN  /\ b.finished
              /\ b.children = <<>>
    /\ \E p \in ForestPaths(branches) :
          LET b == BranchAt(branches, p)
          IN  /\ b.depth > 1
              /\ \E i \in 1..Len(b.children) :
                     Abs(b.children[i].angle - b.angle) = growth.branch_angle

\* ------------------------------------------- termination of layout_tree
\* some link leads back to a node that leads to it
CyclicLinks ==
    \E n \in Range(nodes) :
        /\ Children(n) # <<>>
        /\ n \in ReachFrom(Range(Children(n)))

RECURSIVE PendingIterations(_)
\* over the active calls: the loop iterations the call has left, and its
\* return
PendingIterations(frames) ==
    IF frames = <<>>
    THEN 0
    ELSE Len(Children(Head(frames).node_id)) - Head(frames).i + 1
             + PendingIterations(Tail(frames))

\* a bound on the steps layout_tree has left: every node without a position
\* can start one call, of at most Len(links) iterations and a return
RemainingWork ==
    (Len(nodes) - Cardinality(positioned_nodes)) * (Len(links) + 2)
        + PendingIterations(stack)

\* C27: layout_tree returns for every node set and link list, cyclic ones
\* included, also when neither max_depth nor min_branch_length stops it:
\* every step of the recursion lowers a bound that is never negative, a call
\* of place_nodes_recursively is made only for a node of the input that had
\* no call before, and so at most as many calls are made as there are nodes.
C27_LayoutTerminates ==
    /\ [](pc = "place" =>
              /\ stack # <<>>
              /\ RemainingWork >= 0
              /\ Len(stack) <= Len(nodes)
              /\ positioned_nodes \subseteq Range(nodes)
              /\ Cardinality(DOMAIN visit) <= Len(nodes))
    /\ [][pc = "place" =>
              /\ RemainingWork' < RemainingWork
              /\ Len(stack') > Len(stack) =>
                     /\ Len(stack') = Len(stack) + 1
                     /\ stack'[Len(stack')].node_id \notin DOMAIN visit
                     /\ DOMAIN visit' =
                            DOMAIN visit \cup {stack'[Len(stack')].node_id}]_vars

C27_Witness ==
    /\ pc = "done"
    /\ CyclicLinks
    /\ max_depth > Len(nodes)
    /\ Cardinality(DOMAIN visit) = Len(nodes)
    /\ Len(nodes) >= 3
    /\ \A n \in DOMAIN visit :
           ~ShouldStop(visit[n].depth, visit[n].length, max_depth,
                       min_branch_length)

\* C28 (as claimed): an active tick at most triples the summed count of
\* branch ends, and the count is at most 3 times the limit in every state
\* the loop reaches.
C28_EndsWithinThreeTimesLimit ==
    /\ [](branches # <<>> =>
              TotalEnds(branches) <= 3 * growth.max_branch_ends)
    /\ [][last_op' \in {"update", "idle"} =>
              TotalEnds(branches') <= 3 * TotalEnds(branches)]_vars

\* C28 (amended): an active tick at most triples the summed count of branch
\* ends, and the count is at most 3 times the limit in every state of a
\* forest that the loop grows by ticks; the instant path does not look at
\* the limit.
C28_TickedEndsWithinThreeTimesLimit ==
    /\ []((branches # <<>> /\ ~instant_grow_mode) =>
              TotalEnds(branches) <= 3 * growth.max_branch_ends)
    /\ [][last_op' \in {"update", "idle"} =>
              TotalEnds(branches') <= 3 * TotalEnds(branches)]_vars

C28_Witness ==
    /\ ~instant_grow_mode
    /\ paused
    /\ last_op = "update"
    /\ Len(branches[1].children) = 3
    /\ TotalEnds(branches) = 9
    /\ TotalEnds(branches) > 2 * growth.max_branch_ends

====
